---- MODULE Spec2Model ----
\* The MDS SessionMap (src/src/mds/SessionMap.cc): the in-memory session table
\* of one rank, its dirty/null overlay, the four version counters, the
\* load state machine (paged OMAP load, legacy blob load) and save/_save_finish
\* against one object of the object store.
EXTENDS Integers, Sequences, FiniteSets, TLC

\* ---------------------------------------------------------------------------
\* Bounds of the model
\* ---------------------------------------------------------------------------

\* version and projected are capped here by the guards of the operations that
\* increment them
MaxVersion == 3

\* version and projected are capped here in the specifications about the
\* contents of the sets and of the store, which the values of the counters do
\* not influence
MaxLowVersion == 2

\* number of mutate operations that may be outstanding in the object store
MaxInFlight == 2

\* number of completions that may be queued in commit_waiters
MaxWaiters == 2

\* largest value of mds_sessionmap_keys_per_op tried
MaxK == 2

\* largest version found in the stored object before the load
MaxStoredVersion == 1

\* version is capped here in the scenario of two saves at versions 5 and 6
MaxScenarioVersion == 6
MaxKeys == 4

\* client ids of the sessions the operations act on
Names == {1, 2}

\* ---------------------------------------------------------------------------
\* Values
\* ---------------------------------------------------------------------------

STATE_CLOSED == "closed"
STATE_OPENING == "opening"
STATE_OPEN == "open"
STATE_CLOSING == "closing"
STATE_STALE == "stale"
STATE_KILLING == "killing"

States ==
  {STATE_CLOSED, STATE_OPENING, STATE_OPEN, STATE_CLOSING, STATE_STALE, STATE_KILLING}

\* session_info_t: the instance name, and whether prealloc_inos/used_inos hold
\* inode numbers (the other fields are not read or written by the map)
Info(n, inos) == [name |-> n, inos |-> inos]

\* an empty bufferlist
EmptyBl == <<>>

Min(a, b) == IF a < b THEN a ELSE b

\* ---------------------------------------------------------------------------
\* Keys of the OMAP: the textual form of entity_name_t, "client.<decimal id>"
\* ---------------------------------------------------------------------------

RECURSIVE Digits(_)
Digits(n) == IF n < 10 THEN <<n>> ELSE Digits(n \div 10) \o <<n % 10>>

\* operator<< of entity_name_t, as used by save to build the key
KeyOf(n) == <<"client", ".">> \o Digits(n)

RECURSIVE Number(_)
Number(ds) ==
  IF Len(ds) = 0 THEN 0 ELSE 10 * Number(SubSeq(ds, 1, Len(ds) - 1)) + ds[Len(ds)]

\* entity_name_t::parse: the id of a well-formed key, -1 when it does not parse
ParseKey(k) ==
  IF Len(k) >= 3 /\ k[1] = "client" /\ k[2] = "."
     /\ \A i \in 3..Len(k) : k[i] \in 0..9
  THEN Number(SubSeq(k, 3, Len(k)))
  ELSE -1

\* std::string operator< on two keys (the keys differ only after the prefix)
RECURSIVE DigitsLess(_, _)
DigitsLess(a, b) ==
  IF Len(b) = 0 THEN FALSE
  ELSE IF Len(a) = 0 THEN TRUE
  ELSE IF a[1] # b[1] THEN a[1] < b[1]
  ELSE DigitsLess(Tail(a), Tail(b))

KeyLess(a, b) ==
  IF Len(a) < 3 THEN Len(b) >= 3
  ELSE IF Len(b) < 3 THEN FALSE
  ELSE DigitsLess(SubSeq(a, 3, Len(a)), SubSeq(b, 3, Len(b)))

\* the smallest key of a non-empty set of keys
MinKey(ks) == CHOOSE k \in ks : \A o \in ks : o = k \/ KeyLess(k, o)

\* the keys of a set in ascending order
RECURSIVE SortedKeys(_)
SortedKeys(ks) ==
  IF ks = {} THEN <<>> ELSE <<MinKey(ks)>> \o SortedKeys(ks \ {MinKey(ks)})

\* ---------------------------------------------------------------------------
\* Encodings
\* ---------------------------------------------------------------------------

\* session_info_t::encode / decode: a versioned frame around the fields
EncodeInfo(info) == <<"session_info_t", info.name, info.inos>>

DecodeInfo(bl) == Info(bl[2], bl[3])

\* SessionMapStore::encode_header: ENCODE_START(1, 1) around the version
encode_header(v) == <<1, 1, v>>

\* SessionMapStore::decode_header: the version of a header blob
decode_header(bl) == bl[3]

\* ---------------------------------------------------------------------------
\* Maps with a changing domain
\* ---------------------------------------------------------------------------

Put(m, k, v) == [x \in DOMAIN m \cup {k} |-> IF x = k THEN v ELSE m[x]]

Del(m, ks) == [x \in DOMAIN m \ ks |-> m[x]]

EmptyMap == [x \in {} |-> 0]

\* ---------------------------------------------------------------------------
\* State
\* ---------------------------------------------------------------------------

VARIABLES
  pc,               \* "init", "loading", "loading_legacy", "loaded", "failed"
  keys_per_op,      \* g_conf->mds_sessionmap_keys_per_op
  obj_header,       \* the object's OMAP header (EmptyBl when absent)
  obj_omap,         \* the object's OMAP: key -> encoded session info
  obj_data,         \* the object's bytes (a legacy blob, or EmptyBl)
  load_op,          \* the read the objecter has outstanding for the load
  reads_issued,     \* number of reads handed to the objecter
  session_map,      \* name -> Session
  by_state,         \* state -> list of the names linked on that state's xlist
  dirty_sessions,
  null_sessions,
  version,
  projected,
  committing,
  committed,
  commit_waiters,   \* version -> list of completions
  waiting_for_load, \* number of completions queued for the load
  load_released,    \* number of load completions fired so far
  loaded_legacy,
  inflight,         \* mutate operations submitted and not yet completed, in order
  fired,            \* the save completion the last step ran: its version
                    \* and the completions it fired
  unsaved           \* [name, v]: mark_dirty calls no composed operation includes yet

vars ==
  <<pc, keys_per_op, obj_header, obj_omap, obj_data, load_op, reads_issued,
    session_map, by_state, dirty_sessions, null_sessions, version, projected,
    committing, committed, commit_waiters, waiting_for_load, load_released,
    loaded_legacy, inflight, fired, unsaved>>

objvars == <<obj_header, obj_omap, obj_data>>

loadvars == <<load_op, reads_issued, waiting_for_load, load_released>>

\* ---------------------------------------------------------------------------
\* Session
\* ---------------------------------------------------------------------------

\* a Session object: state, info and projected_pv_queue (state_seq,
\* last_cap_renew, human_name, client metadata and the recall counters are
\* presentation or bookkeeping fields no operation of the map reads; they are
\* left out), and the reference count of RefCountedObject, 1 after new Session
Session(st, info) == [state |-> st, info |-> info, pv |-> <<>>, nref |-> 1]

\* Session::decode: info.decode
SessionDecode(s, bl) == [s EXCEPT !.info = DecodeInfo(bl)]

\* the states whose sessions save writes to the OMAP
Persisted(st) == st \in {STATE_OPEN, STATE_CLOSING, STATE_STALE, STATE_KILLING}

\* ---------------------------------------------------------------------------
\* by_state: one xlist per state; an item is on at most one list
\* ---------------------------------------------------------------------------

SeqWithout(q, n) == SelectSeq(q, LAMBDA x : x # n)

InSeq(q, n) == \E i \in 1..Len(q) : q[i] = n

\* xlist::item::remove_myself
RemoveMyself(by, n) == [st \in States |-> SeqWithout(by[st], n)]

\* xlist::push_back: the item leaves the list it is on and goes to the tail
PushBack(by, st, n) ==
  [x \in States |->
     IF x = st THEN Append(SeqWithout(by[x], n), n) ELSE SeqWithout(by[x], n)]

RECURSIVE PushBackAll(_, _, _)
PushBackAll(by, sm, order) ==
  IF Len(order) = 0 THEN by
  ELSE PushBackAll(PushBack(by, sm[Head(order)].state, Head(order)), sm, Tail(order))

\* the orders in which an unordered_map may enumerate a set of names
Orders(S) ==
  {q \in [1..Cardinality(S) -> S] : \A i, j \in 1..Cardinality(S) : q[i] = q[j] => i = j}

\* ---------------------------------------------------------------------------
\* The SessionMap object as one value, for the operations that call each other
\* ---------------------------------------------------------------------------

Cur ==
  [session_map |-> session_map, by_state |-> by_state,
   dirty_sessions |-> dirty_sessions, null_sessions |-> null_sessions,
   version |-> version, projected |-> projected, committing |-> committing,
   committed |-> committed, commit_waiters |-> commit_waiters,
   loaded_legacy |-> loaded_legacy, inflight |-> inflight, unsaved |-> unsaved,
   failed |-> FALSE]

\* the SessionMap object becomes m
SetMap(m) ==
  /\ session_map' = m.session_map
  /\ by_state' = m.by_state
  /\ dirty_sessions' = m.dirty_sessions
  /\ null_sessions' = m.null_sessions
  /\ version' = m.version
  /\ projected' = m.projected
  /\ committing' = m.committing
  /\ committed' = m.committed
  /\ commit_waiters' = m.commit_waiters
  /\ loaded_legacy' = m.loaded_legacy
  /\ inflight' = m.inflight
  /\ unsaved' = m.unsaved

\* number of completions queued in commit_waiters
RECURSIVE CountWaiters(_)
CountWaiters(cw) ==
  IF DOMAIN cw = {} THEN 0
  ELSE LET v == CHOOSE x \in DOMAIN cw : TRUE
       IN Len(cw[v]) + CountWaiters(Del(cw, {v}))

\* the bounds of the model on a state
WithinBounds(m) ==
  m.failed \/ (/\ Len(m.inflight) <= MaxInFlight
               /\ CountWaiters(m.commit_waiters) <= MaxWaiters)

\* a completion handed to save: the needv of the call, whether it is the
\* C_MDSInternalNoop of _mark_dirty, and the version the map had at the call
Completion(needv, noop, callv) == [needv |-> needv, noop |-> noop, callv |-> callv]

\* commit_waiters[v].push_back(c)
PushWaiter(cw, v, c) ==
  IF v \in DOMAIN cw THEN [cw EXCEPT ![v] = Append(@, c)] ELSE Put(cw, v, <<c>>)

\* ---------------------------------------------------------------------------
\* SAVE
\* ---------------------------------------------------------------------------

\* a save that serializes every session of the map in one of the four states,
\* dirty or not
ToSet_AllSessions(m) ==
  LET names == {n \in DOMAIN m.session_map : Persisted(m.session_map[n].state)}
  IN [k \in {KeyOf(n) : n \in names} |-> EncodeInfo(m.session_map[ParseKey(k)].info)]

\* the dirty names save serializes: those whose session is open, closing,
\* stale or killing
ToSet(m) ==
  LET names == {n \in m.dirty_sessions : Persisted(m.session_map[n].state)}
  IN [k \in {KeyOf(n) : n \in names} |-> EncodeInfo(m.session_map[ParseKey(k)].info)]

ToRemove(m) == {KeyOf(n) : n \in m.null_sessions}

\* the marks that an operation composed now carries: those of the names in the
\* two sets the operation is composed from
Carried(m) == {x \in m.unsaved : x.name \in m.dirty_sessions \cup m.null_sessions}

\* the ObjectOperation save composes, with the version C_IO_SM_Save records
ComposeOp(m) ==
  [version |-> m.version,
   header |-> encode_header(m.version),
   truncate |-> m.loaded_legacy,
   to_set |-> ToSet(m),
   to_remove |-> ToRemove(m),
   marks |-> Carried(m)]

\* a save that takes any commit in flight for one that covers needv
Collapses_AnyInFlight(m, needv) == needv # 0 /\ m.committing > m.committed

\* the condition under which save queues the completion on the commit in flight
Collapses(m, needv) == needv # 0 /\ m.committing >= needv

\* a save that does not clear loaded_legacy
save_KeepsLegacy(m, onsave, needv) ==
  IF Collapses(m, needv)
  THEN IF ~(m.committing > m.committed)
       THEN [m EXCEPT !.failed = TRUE]
       ELSE [m EXCEPT !.commit_waiters = PushWaiter(@, m.committing, onsave)]
  ELSE IF ~(m.dirty_sessions \subseteq DOMAIN m.session_map)
  THEN [m EXCEPT !.failed = TRUE]
  ELSE [m EXCEPT !.commit_waiters = PushWaiter(@, m.version, onsave),
                 !.committing = m.version,
                 !.inflight = Append(@, ComposeOp(m)),
                 !.unsaved = @ \ Carried(m),
                 !.dirty_sessions = {},
                 !.null_sessions = {}]

\* a save that does not clear null_sessions
save_KeepsNull(m, onsave, needv) ==
  IF Collapses(m, needv)
  THEN IF ~(m.committing > m.committed)
       THEN [m EXCEPT !.failed = TRUE]
       ELSE [m EXCEPT !.commit_waiters = PushWaiter(@, m.committing, onsave)]
  ELSE IF ~(m.dirty_sessions \subseteq DOMAIN m.session_map)
  THEN [m EXCEPT !.failed = TRUE]
  ELSE [m EXCEPT !.commit_waiters = PushWaiter(@, m.version, onsave),
                 !.committing = m.version,
                 !.loaded_legacy = FALSE,
                 !.inflight = Append(@, ComposeOp(m)),
                 !.unsaved = @ \ Carried(m),
                 !.dirty_sessions = {}]

\* SessionMap::save
save(m, onsave, needv) ==
  IF Collapses(m, needv)
  THEN IF ~(m.committing > m.committed)
       THEN [m EXCEPT !.failed = TRUE]
       ELSE [m EXCEPT !.commit_waiters = PushWaiter(@, m.committing, onsave)]
  ELSE IF ~(m.dirty_sessions \subseteq DOMAIN m.session_map)
  THEN [m EXCEPT !.failed = TRUE]
  ELSE [m EXCEPT !.commit_waiters = PushWaiter(@, m.version, onsave),
                 !.committing = m.version,
                 !.loaded_legacy = FALSE,
                 !.inflight = Append(@, ComposeOp(m)),
                 !.unsaved = @ \ Carried(m),
                 !.dirty_sessions = {},
                 !.null_sessions = {}]

\* the object after the store has applied a mutate operation: header, truncate,
\* omap_set, omap_rm_keys, in the order save added them
ApplyHeader(op) == op.header

ApplyData(data, op) == IF op.truncate THEN EmptyBl ELSE data

ApplyOmap(omap, op) ==
  LET set == [k \in DOMAIN omap \cup DOMAIN op.to_set |->
                IF k \in DOMAIN op.to_set THEN op.to_set[k] ELSE omap[k]]
  IN Del(set, op.to_remove)

\* SessionMap::_save_finish
save_finish(m, v) ==
  [m EXCEPT !.committed = v, !.commit_waiters = Del(@, {v})]

\* the completions _save_finish(v) fires
FiredBy(m, v) == IF v \in DOMAIN m.commit_waiters THEN m.commit_waiters[v] ELSE <<>>

\* ---------------------------------------------------------------------------
\* Mutations
\* ---------------------------------------------------------------------------

\* SessionMap::add_session: the name must not be in the map; the map takes a
\* reference
add_session(m, n, s) ==
  IF n \in DOMAIN m.session_map
  THEN [m EXCEPT !.failed = TRUE]
  ELSE [m EXCEPT !.session_map = Put(@, n, [s EXCEPT !.nref = @ + 1]),
                 !.by_state = PushBack(@, s.state, n)]

\* what remove_session reads as s->info.inst.name after s->put(): the name
\* when the Session is still allocated; when put() dropped the last reference
\* the Session has been freed and the read is undefined: the bytes are still
\* the name, or they are another value (GarbageName), or the access faults
READ_INTACT == "intact"
READ_GARBAGE == "garbage"
READ_FAULT == "fault"

\* a name read from freed memory that is the name of no session
GarbageName == 165

FreedReads(s) ==
  IF s.nref > 1 THEN {READ_INTACT} ELSE {READ_INTACT, READ_GARBAGE, READ_FAULT}

\* SessionMap::remove_session; read is what the three reads of the name after
\* s->put() return
remove_session(m, n, read) ==
  LET name == IF read = READ_GARBAGE THEN GarbageName ELSE n
  IN IF read = READ_FAULT
     THEN [m EXCEPT !.failed = TRUE]
     ELSE [m EXCEPT !.by_state = RemoveMyself(@, n),
                    !.session_map = Del(@, {n}),
                    !.dirty_sessions = @ \ {name},
                    !.null_sessions = @ \cup {name}]

\* a set_state that assigns the state and leaves the session on its old list
set_state_NoRelink(m, n, st) ==
  IF m.session_map[n].state # st
  THEN [m EXCEPT !.session_map[n].state = st]
  ELSE m

\* SessionMap::set_state
set_state(m, n, st) ==
  IF m.session_map[n].state # st
  THEN [m EXCEPT !.session_map[n].state = st,
                 !.by_state = PushBack(@, st, n)]
  ELSE m

\* SessionMap::touch_session: the session must be on a list
touch_session(m, n) ==
  IF ~(\E st \in States : InSeq(m.by_state[st], n))
  THEN [m EXCEPT !.failed = TRUE]
  ELSE [m EXCEPT !.by_state = PushBack(@, m.session_map[n].state, n)]

\* SessionMap::_mark_dirty
mark_dirty_inner(m, n, K) ==
  LET m1 == IF Cardinality(m.dirty_sessions) >= K
            THEN save(m, Completion(m.version, TRUE, m.version), m.version)
            ELSE m
  IN [m1 EXCEPT !.dirty_sessions = @ \cup {n}]

\* the assertions of Session::pop_pv(v): the queue is not empty and its front
\* is v
pop_pv_asserts(q, v) == Len(q) > 0 /\ Head(q) = v

\* Session::pop_pv: projected_pv_queue.pop_front()
pop_pv(q, v) == Tail(q)

\* SessionMap::mark_dirty
mark_dirty(m, n, K) ==
  LET m1 == mark_dirty_inner(m, n, K)
  IN IF m1.failed \/ ~pop_pv_asserts(m1.session_map[n].pv, m1.version + 1)
     THEN [m1 EXCEPT !.failed = TRUE]
     ELSE [m1 EXCEPT !.version = @ + 1,
                     !.session_map[n].pv = pop_pv(@, m1.version + 1),
                     !.unsaved = @ \cup {[name |-> n, v |-> m1.version + 1]}]

\* SessionMap::replay_advance_version
replay_advance_version(m) ==
  [m EXCEPT !.version = @ + 1, !.projected = m.version + 1]

\* SessionMap::replay_dirty_session
replay_dirty_session(m, n, K) ==
  LET m1 == mark_dirty_inner(m, n, K)
      m2 == replay_advance_version(m1)
  IN [m2 EXCEPT !.unsaved = @ \cup {[name |-> n, v |-> m2.version]}]

\* the assertion of Session::push_pv(v): the queue does not end in v
push_pv_asserts(q, v) == Len(q) = 0 \/ q[Len(q)] # v

\* Session::push_pv: projected_pv_queue.push_back(v)
push_pv(q, v) == Append(q, v)

\* SessionMap::mark_projected
mark_projected(m, n) ==
  IF ~push_pv_asserts(m.session_map[n].pv, m.projected + 1)
  THEN [m EXCEPT !.projected = @ + 1, !.failed = TRUE]
  ELSE [m EXCEPT !.projected = @ + 1,
                 !.session_map[n].pv = push_pv(@, m.projected + 1)]

RECURSIVE RemoveAll(_, _, _)
RemoveAll(m, names, reads) ==
  IF names = {} \/ m.failed THEN m
  ELSE LET n == CHOOSE x \in names : TRUE
       IN RemoveAll(remove_session(m, n, reads[n]), names \ {n}, reads)

\* SessionMap::wipe; reads[n] is what remove_session of n reads after put()
wipe(m, reads) ==
  LET m1 == RemoveAll(m, DOMAIN m.session_map, reads)
  IN [m1 EXCEPT !.projected = @ + 1, !.version = m.projected + 1]

\* SessionMap::wipe_ino_prealloc
wipe_ino_prealloc(m) ==
  [m EXCEPT !.session_map =
              [n \in DOMAIN @ |-> [@[n] EXCEPT !.info.inos = FALSE]],
            !.version = @ + 1,
            !.projected = m.version + 1]

\* ---------------------------------------------------------------------------
\* LOAD
\* ---------------------------------------------------------------------------

\* omap_get_vals(start, "", max): the first max entries whose key is after start
OmapGetVals(omap, start, max) ==
  LET sorted == SortedKeys({k \in DOMAIN omap : KeyLess(start, k)})
      taken == {sorted[i] : i \in 1..Min(max, Len(sorted))}
  IN [k \in taken |-> omap[k]]

\* a continuation that starts after the first key of the batch
LastKey_First(vals) == LET sorted == SortedKeys(DOMAIN vals) IN sorted[1]

\* the last key of a batch (session_vals.rbegin()->first)
LastKey(vals) == LET sorted == SortedKeys(DOMAIN vals) IN sorted[Len(sorted)]

\* SessionMapStore::get_or_add_session: the session of the name, a new closed
\* one when there is none
get_or_add_session(sm, n) ==
  IF n \in DOMAIN sm THEN sm[n] ELSE Session(STATE_CLOSED, Info(n, FALSE))

\* one iteration of the loop of decode_values
DecodeValue(sm, n, bl) ==
  LET s == get_or_add_session(sm, n)
      s1 == IF s.state = STATE_CLOSED THEN [s EXCEPT !.state = STATE_OPEN] ELSE s
  IN Put(sm, n, SessionDecode(s1, bl))

RECURSIVE DecodeValuesFrom(_, _, _)
DecodeValuesFrom(sm, vals, keys) ==
  IF Len(keys) = 0 THEN sm
  ELSE DecodeValuesFrom(DecodeValue(sm, ParseKey(Head(keys)), vals[Head(keys)]),
                        vals, Tail(keys))

\* SessionMapStore::decode_values; a key that does not parse throws
decode_values(m, vals) ==
  IF \E k \in DOMAIN vals : ParseKey(k) < 0
  THEN [m EXCEPT !.failed = TRUE]
  ELSE [m EXCEPT !.session_map = DecodeValuesFrom(@, vals, SortedKeys(DOMAIN vals))]

\* one record of the old legacy format: a new Session is decoded and stored;
\* when the map has the name already the new Session is deleted while it holds
\* its one reference, which the destructor of RefCountedObject asserts against
DecodeOldRecord(m, rec) ==
  LET n == DecodeInfo(rec.bl).name
  IN IF n \in DOMAIN m.session_map
     THEN [m EXCEPT !.failed = TRUE]
     ELSE [m EXCEPT !.session_map = Put(@, n, Session(STATE_OPEN, DecodeInfo(rec.bl)))]

RECURSIVE DecodeLegacyRecords(_, _, _)
DecodeLegacyRecords(m, format, recs) ==
  IF Len(recs) = 0 \/ m.failed THEN m
  ELSE DecodeLegacyRecords(
         IF format = "new"
         THEN [m EXCEPT !.session_map = DecodeValue(@, Head(recs).name, Head(recs).bl)]
         ELSE DecodeOldRecord(m, Head(recs)),
         format, Tail(recs))

\* SessionMapStore::decode_legacy; decoding an empty buffer throws
store_decode_legacy(m, blob) ==
  IF blob = EmptyBl
  THEN [m EXCEPT !.failed = TRUE]
  ELSE LET recs == IF blob.format = "new" THEN blob.recs
                   ELSE SubSeq(blob.recs, 1, Min(blob.n, Len(blob.recs)))
       IN DecodeLegacyRecords([m EXCEPT !.version = blob.version], blob.format, recs)

\* SessionMap::decode_legacy: the store's decode, then every session is put on
\* the list of its state, in the order the unordered_map enumerates them
decode_legacy(m, blob, order) ==
  LET m1 == store_decode_legacy(m, blob)
  IN IF m1.failed THEN m1
     ELSE [m1 EXCEPT !.by_state = PushBackAll(@, m1.session_map, order)]

\* a completion that leaves committed behind
LoadedCounters_NoCommitted(m) ==
  [m EXCEPT !.projected = m.version, !.committing = m.version]

\* projected = committing = committed = version
LoadedCounters(m) ==
  [m EXCEPT !.projected = m.version, !.committing = m.version, !.committed = m.version]

\* the end of _load_finish, when the last batch has been decoded
load_complete(m, order) ==
  LoadedCounters([m EXCEPT !.by_state = PushBackAll(@, m.session_map, order)])

\* the end of _load_legacy_finish, after decode_legacy
load_legacy_complete(m) ==
  [LoadedCounters(m) EXCEPT !.dirty_sessions = @ \cup DOMAIN m.session_map,
                            !.loaded_legacy = TRUE]

\* ---------------------------------------------------------------------------
\* The stored object before the load
\* ---------------------------------------------------------------------------

\* an object in the modern format: header with version v, one key per name of S
ModernObject(v, S, inos) ==
  [header |-> encode_header(v),
   omap |-> [k \in {KeyOf(n) : n \in S} |-> EncodeInfo(Info(ParseKey(k), inos))],
   data |-> EmptyBl]

LegacyRecord(n, inos) == [name |-> n, bl |-> EncodeInfo(Info(n, inos))]

\* an object in a legacy format: no header, no keys, the map in the bytes
LegacyObject(format, v, names, inos) ==
  [header |-> EmptyBl,
   omap |-> EmptyMap,
   data |-> [format |-> format, version |-> v, n |-> Len(names),
             recs |-> [i \in 1..Len(names) |-> LegacyRecord(names[i], inos)]]]

\* an object with neither header, keys nor bytes
AbsentObject == [header |-> EmptyBl, omap |-> EmptyMap, data |-> EmptyBl]

\* ---------------------------------------------------------------------------
\* Init
\* ---------------------------------------------------------------------------

\* the last step ran no save completion
NoFire == [v |-> -1, cs |-> <<>>]

NoLoadOp == [kind |-> "none", first |-> FALSE, start |-> <<>>]

\* the state after construction, with one of the objects in the store and one
\* of the values of mds_sessionmap_keys_per_op
InitWith(objects, ks) ==
  /\ pc = "init"
  /\ keys_per_op \in ks
  /\ \E o \in objects :
       /\ obj_header = o.header
       /\ obj_omap = o.omap
       /\ obj_data = o.data
  /\ load_op = NoLoadOp
  /\ reads_issued = 0
  /\ session_map = EmptyMap
  /\ by_state = [st \in States |-> <<>>]
  /\ dirty_sessions = {}
  /\ null_sessions = {}
  /\ version = 0
  /\ projected = 0
  /\ committing = 0
  /\ committed = 0
  /\ commit_waiters = EmptyMap
  /\ waiting_for_load = 0
  /\ load_released = 0
  /\ loaded_legacy = FALSE
  /\ inflight = <<>>
  /\ fired = NoFire
  /\ unsaved = {}

\* ---------------------------------------------------------------------------
\* Actions of the load
\* ---------------------------------------------------------------------------

mapvars ==
  <<session_map, by_state, dirty_sessions, null_sessions, version, projected,
    committing, committed, commit_waiters, loaded_legacy, inflight, unsaved>>

\* a failed assertion or an uncaught exception: the rank aborts
Abort ==
  /\ pc' = "failed"
  /\ fired' = NoFire
  /\ UNCHANGED <<keys_per_op, objvars, loadvars, mapvars>>

\* SessionMap::load
Load(onload) ==
  /\ pc = "init"
  /\ pc' = "loading"
  /\ waiting_for_load' = waiting_for_load + (IF onload THEN 1 ELSE 0)
  /\ load_op' = [kind |-> "omap", first |-> TRUE, start |-> <<>>]
  /\ reads_issued' = reads_issued + 1
  /\ fired' = NoFire
  /\ UNCHANGED <<keys_per_op, objvars, load_released, mapvars>>

\* C_IO_SM_Load::finish -> SessionMap::_load_finish
LoadFinish(operation_r, header_r, values_r) ==
  /\ pc = "loading"
  /\ LET first == load_op.first
         header_bl == obj_header
     IN IF operation_r < 0 \/ (first /\ header_r # 0)
        THEN Abort
        ELSE IF first /\ Len(header_bl) = 0
        THEN \* load_legacy
             /\ pc' = "loading_legacy"
             /\ load_op' = [kind |-> "read_full", first |-> FALSE, start |-> <<>>]
             /\ reads_issued' = reads_issued + 1
             /\ fired' = NoFire
             /\ UNCHANGED <<keys_per_op, objvars, waiting_for_load, load_released,
                            mapvars>>
        ELSE \E session_vals \in {OmapGetVals(obj_omap, load_op.start, keys_per_op)} :
             \E m0 \in {[Cur EXCEPT !.version =
                                      IF first THEN decode_header(header_bl) ELSE @]} :
             \E m1 \in {decode_values(m0, session_vals)} :
               IF values_r # 0 \/ m1.failed
               THEN Abort
               ELSE IF Cardinality(DOMAIN session_vals) = keys_per_op
               THEN /\ SetMap(m1)
                    /\ pc' = "loading"
                    /\ load_op' = [kind |-> "omap", first |-> FALSE,
                                   start |-> LastKey(session_vals)]
                    /\ reads_issued' = reads_issued + 1
                    /\ fired' = NoFire
                    /\ UNCHANGED <<keys_per_op, objvars, waiting_for_load, load_released>>
               ELSE \E order \in Orders(DOMAIN m1.session_map) :
                    \E m2 \in {load_complete(m1, order)} :
                      /\ SetMap(m2)
                      /\ pc' = "loaded"
                      /\ load_op' = NoLoadOp
                      /\ load_released' = load_released + waiting_for_load
                      /\ waiting_for_load' = 0
                      /\ fired' = NoFire
                      /\ UNCHANGED <<keys_per_op, objvars, reads_issued>>

\* C_IO_SM_LoadLegacy::finish -> SessionMap::_load_legacy_finish
LoadLegacyFinish(r) ==
  /\ pc = "loading_legacy"
  /\ \E order \in Orders(DOMAIN store_decode_legacy(Cur, obj_data).session_map) :
       LET m1 == decode_legacy(Cur, obj_data, order)
       IN IF r < 0 \/ m1.failed
          THEN Abort
          ELSE /\ SetMap(load_legacy_complete(m1))
               /\ pc' = "loaded"
               /\ load_op' = NoLoadOp
               /\ load_released' = load_released + waiting_for_load
               /\ waiting_for_load' = 0
               /\ fired' = NoFire
               /\ UNCHANGED <<keys_per_op, objvars, reads_issued>>

\* ---------------------------------------------------------------------------
\* Actions of the loaded map
\* ---------------------------------------------------------------------------

\* a call on the loaded map that takes it to m and fires no completion
Step(m) ==
  /\ pc = "loaded"
  /\ WithinBounds(m)
  /\ IF m.failed
     THEN Abort
     ELSE /\ SetMap(m)
          /\ pc' = pc
          /\ fired' = NoFire
          /\ UNCHANGED <<keys_per_op, objvars, loadvars>>

AddSession(n, st) ==
  Step(add_session(Cur, n, Session(st, Info(n, FALSE))))

\* the holder of a reference other than the map's releases it (Session::put)
DropReference(n) ==
  /\ n \in DOMAIN session_map
  /\ session_map[n].nref > 1
  /\ Step([Cur EXCEPT !.session_map[n].nref = @ - 1])

RemoveSession(n) ==
  /\ n \in DOMAIN session_map
  /\ \E read \in FreedReads(session_map[n]) : Step(remove_session(Cur, n, read))

SetState(n, st) ==
  /\ n \in DOMAIN session_map
  /\ Step(set_state(Cur, n, st))

\* touch_session can be called on a session of the map while the load is between
\* two batches
TouchSession(n) ==
  /\ n \in DOMAIN session_map
  /\ pc \in {"loading", "loaded"}
  /\ LET m == touch_session(Cur, n)
     IN IF m.failed THEN Abort ELSE Step(m)

MarkProjected(n) ==
  /\ n \in DOMAIN session_map
  /\ projected < MaxVersion
  /\ Step(mark_projected(Cur, n))

\* mark_dirty is called on a session that has a projected version queued
MarkDirty(n) ==
  /\ n \in DOMAIN session_map
  /\ Len(session_map[n].pv) > 0
  /\ version < MaxVersion
  /\ Step(mark_dirty(Cur, n, keys_per_op))

ReplayDirtySession(n) ==
  /\ n \in DOMAIN session_map
  /\ version < MaxVersion
  /\ Step(replay_dirty_session(Cur, n, keys_per_op))

ReplayAdvanceVersion ==
  /\ version < MaxVersion
  /\ Step(replay_advance_version(Cur))

Wipe ==
  /\ projected < MaxVersion
  /\ \E reads \in [DOMAIN session_map -> {READ_INTACT, READ_GARBAGE, READ_FAULT}] :
       /\ \A n \in DOMAIN session_map : reads[n] \in FreedReads(session_map[n])
       /\ Step(wipe(Cur, reads))

WipeInoPrealloc ==
  /\ version < MaxVersion
  /\ Step(wipe_ino_prealloc(Cur))

\* a caller's save(onsave, needv)
Save(needv) ==
  Step(save(Cur, Completion(needv, FALSE, version), needv))

\* C_IO_SM_Save::finish -> SessionMap::_save_finish, when the store has applied
\* the oldest outstanding operation (r = 0) or has failed it
SaveFinish(r) ==
  /\ pc = "loaded"
  /\ Len(inflight) > 0
  /\ LET op == Head(inflight)
         m == [Cur EXCEPT !.inflight = Tail(@)]
     IN IF r # 0
        THEN Abort
        ELSE /\ obj_header' = ApplyHeader(op)
             /\ obj_data' = ApplyData(obj_data, op)
             /\ obj_omap' = ApplyOmap(obj_omap, op)
             /\ SetMap(save_finish(m, op.version))
             /\ fired' = [v |-> op.version, cs |-> FiredBy(m, op.version)]
             /\ pc' = pc
             /\ UNCHANGED <<keys_per_op, loadvars>>

\* ---------------------------------------------------------------------------
\* The whole program: every operation, on every object
\* ---------------------------------------------------------------------------

InitObjects ==
  {ModernObject(v, S, TRUE) : v \in 0..MaxStoredVersion, S \in SUBSET Names}
    \cup {LegacyObject(f, v, q, TRUE) :
            f \in {"new", "old"}, v \in 0..MaxStoredVersion,
            q \in {<<>>, <<1>>, <<1, 2>>, <<2, 2>>}}
    \cup {AbsentObject}

Init == InitWith(InitObjects, 1..MaxK)

LoadNext ==
  \/ \E onload \in BOOLEAN : Load(onload)
  \/ \E operation_r, header_r, values_r \in {0, -5} :
       LoadFinish(operation_r, header_r, values_r)
  \/ \E r \in {0, -5} : LoadLegacyFinish(r)

Next ==
  \/ LoadNext
  \/ \E n \in Names, st \in States : AddSession(n, st)
  \/ \E n \in Names : DropReference(n)
  \/ \E n \in Names : RemoveSession(n)
  \/ \E n \in Names, st \in States : SetState(n, st)
  \/ \E n \in Names : TouchSession(n)
  \/ \E n \in Names : MarkProjected(n)
  \/ \E n \in Names : MarkDirty(n)
  \/ \E n \in Names : ReplayDirtySession(n)
  \/ ReplayAdvanceVersion
  \/ Wipe
  \/ WipeInoPrealloc
  \/ \E needv \in 0..(version + 1) : Save(needv)
  \/ \E r \in {0, -5} : SaveFinish(r)

Spec == Init /\ [][Next]_vars

\* ---------------------------------------------------------------------------
\* The version counters and the commit waiters: the operations that move the
\* counters, queue completions and fire them, on one session kept open
\* ---------------------------------------------------------------------------

VersionObjects ==
  {ModernObject(v, {1}, FALSE) : v \in 0..MaxStoredVersion}
    \cup {LegacyObject("new", v, <<1>>, FALSE) : v \in 0..MaxStoredVersion}

InitVersions == InitWith(VersionObjects, {1})

NextVersions ==
  \/ LoadNext
  \/ AddSession(1, STATE_OPEN)
  \/ RemoveSession(1)
  \/ MarkProjected(1)
  \/ MarkDirty(1)
  \/ ReplayDirtySession(1)
  \/ ReplayAdvanceVersion
  \/ Wipe
  \/ WipeInoPrealloc
  \/ \E needv \in 0..(version + 1) : Save(needv)
  \/ \E r \in {0, -5} : SaveFinish(r)

SpecVersions == InitVersions /\ [][NextVersions]_vars

\* ---------------------------------------------------------------------------
\* The dirty/null overlay: sessions added, marked dirty, removed and added
\* again on two names, every save a full write with one operation outstanding
\* ---------------------------------------------------------------------------

OverlayObjects ==
  {ModernObject(0, S, FALSE) : S \in {{}, {1, 2}}}
    \cup {LegacyObject("old", 0, <<1, 2>>, FALSE)}

InitOverlay == InitWith(OverlayObjects, 1..MaxK)

Low == version < MaxLowVersion /\ projected < MaxLowVersion

NextOverlay ==
  \/ LoadNext
  \/ \E n \in Names : AddSession(n, STATE_OPEN)
  \/ \E n \in Names : RemoveSession(n)
  \/ \E n \in Names : Low /\ MarkProjected(n)
  \/ \E n \in Names : version < MaxLowVersion /\ MarkDirty(n)
  \/ \E n \in Names : Low /\ ReplayDirtySession(n)
  \/ Low /\ Wipe
  \/ inflight = <<>> /\ Save(0)
  \/ \E r \in {0, -5} : SaveFinish(r)

SpecOverlay == InitOverlay /\ [][NextOverlay]_vars

\* ---------------------------------------------------------------------------
\* The by_state index: the load, and the operations that link, unlink and
\* move sessions
\* ---------------------------------------------------------------------------

IndexObjects ==
  {ModernObject(0, S, FALSE) : S \in SUBSET Names}
    \cup {LegacyObject(f, 0, q, FALSE) : f \in {"new", "old"}, q \in {<<1, 2>>, <<2, 2>>}}

InitIndex == InitWith(IndexObjects, 1..MaxK)

NextIndex ==
  \/ LoadNext
  \/ \E n \in Names, st \in States : AddSession(n, st)
  \/ \E n \in Names : DropReference(n)
  \/ \E n \in Names : RemoveSession(n)
  \/ \E n \in Names, st \in States : SetState(n, st)
  \/ \E n \in Names : TouchSession(n)
  \/ Wipe

SpecIndex == InitIndex /\ [][NextIndex]_vars

\* ---------------------------------------------------------------------------
\* What a save writes: sessions in every state, with changing info, marked
\* dirty and removed; each operation commits before the next call
\* ---------------------------------------------------------------------------

StoreObjects ==
  {ModernObject(0, S, TRUE) : S \in {{}, {1}, {1, 2}}}
    \cup {LegacyObject("new", 0, <<1, 2>>, TRUE)}

InitStore == InitWith(StoreObjects, {MaxK})

Idle == inflight = <<>>

NextStore ==
  \/ LoadNext
  \/ \E n \in Names, st \in States : Idle /\ AddSession(n, st)
  \/ \E n \in Names : Idle /\ RemoveSession(n)
  \/ \E n \in Names, st \in States : Idle /\ SetState(n, st)
  \/ \E n \in Names : Idle /\ Low /\ ReplayDirtySession(n)
  \/ Idle /\ Low /\ WipeInoPrealloc
  \/ Idle /\ Save(0)
  \/ SaveFinish(0)

SpecStore == InitStore /\ [][NextStore]_vars

\* ---------------------------------------------------------------------------
\* The upgrade of a legacy object: legacy load, changes to the loaded sessions,
\* the save that truncates the bytes, and a restart of the rank that loads the
\* object again; each operation commits before the next call
\* ---------------------------------------------------------------------------

UpgradeObjects ==
  {LegacyObject(f, v, q, TRUE) :
     f \in {"new", "old"}, v \in {0, MaxStoredVersion}, q \in {<<1, 2>>, <<2, 2>>}}

InitUpgrade == InitWith(UpgradeObjects, 1..MaxK)

\* the rank restarts: a new SessionMap is constructed, the object stays
Restart ==
  /\ pc = "loaded"
  /\ inflight = <<>>
  /\ pc' = "init"
  /\ load_op' = NoLoadOp
  /\ reads_issued' = 0
  /\ session_map' = EmptyMap
  /\ by_state' = [st \in States |-> <<>>]
  /\ dirty_sessions' = {}
  /\ null_sessions' = {}
  /\ version' = 0
  /\ projected' = 0
  /\ committing' = 0
  /\ committed' = 0
  /\ commit_waiters' = EmptyMap
  /\ waiting_for_load' = 0
  /\ load_released' = 0
  /\ loaded_legacy' = FALSE
  /\ inflight' = <<>>
  /\ fired' = NoFire
  /\ unsaved' = {}
  /\ UNCHANGED <<keys_per_op, objvars>>

NextUpgrade ==
  \/ LoadNext
  \/ \E n \in Names, st \in States : Idle /\ SetState(n, st)
  \/ \E n \in Names : Idle /\ RemoveSession(n)
  \/ \E n \in Names : Idle /\ Low /\ ReplayDirtySession(n)
  \/ Idle /\ Save(0)
  \/ SaveFinish(0)
  \/ Restart

SpecUpgrade == InitUpgrade /\ [][NextUpgrade]_vars

\* ---------------------------------------------------------------------------
\* The load alone, every read answered without error: objects in the modern
\* format with zero to MaxKeys keys, legacy objects and the object with
\* neither header, keys nor bytes, each batch size up to MaxK
\* ---------------------------------------------------------------------------

LoadObjects ==
  {ModernObject(v, 1..n, inos) : v \in {0, 7}, n \in 0..MaxKeys, inos \in BOOLEAN}
    \cup {LegacyObject("new", 7, <<1, 2>>, FALSE), LegacyObject("old", 0, <<2, 2>>, TRUE)}
    \cup {AbsentObject}

InitLoad == InitWith(LoadObjects, 1..MaxK)

NextLoad ==
  \/ \E onload \in BOOLEAN : Load(onload)
  \/ LoadFinish(0, 0, 0)
  \/ LoadLegacyFinish(0)

SpecLoad == InitLoad /\ [][NextLoad]_vars

\* the finisher runs every completion handed to it
SpecLoadFair ==
  SpecLoad /\ WF_vars(LoadFinish(0, 0, 0)) /\ WF_vars(LoadLegacyFinish(0))

\* ---------------------------------------------------------------------------
\* Projections and marks over two sessions: mark_projected and mark_dirty in
\* every interleaving, the preemptive saves of _mark_dirty committing
\* ---------------------------------------------------------------------------

ProjectedObjects ==
  {ModernObject(v, {1, 2}, FALSE) : v \in {0, MaxStoredVersion}}
    \cup {LegacyObject("new", v, <<1, 2>>, FALSE) : v \in {0, MaxStoredVersion}}

InitProjected == InitWith(ProjectedObjects, 1..MaxK)

NextProjected ==
  \/ LoadNext
  \/ \E n \in Names : MarkProjected(n)
  \/ \E n \in Names : MarkDirty(n)
  \/ SaveFinish(0)

SpecProjected == InitProjected /\ [][NextProjected]_vars

\* ---------------------------------------------------------------------------
\* Two saves at consecutive versions: the map is loaded at version 4, mutated
\* and saved at the versions that follow
\* ---------------------------------------------------------------------------

ScenarioObjects ==
  {ModernObject(4, {1, 2}, FALSE), LegacyObject("new", 4, <<1, 2>>, FALSE)}

InitScenario == InitWith(ScenarioObjects, 1..MaxK)

\* a mutation that raises version: replay_dirty_session
ScenarioMutate(n) ==
  /\ n \in DOMAIN session_map
  /\ version < MaxScenarioVersion
  /\ Step(replay_dirty_session(Cur, n, keys_per_op))

NextScenario ==
  \/ LoadNext
  \/ \E n \in Names : ScenarioMutate(n)
  \/ \E needv \in {0, version} : Save(needv)
  \/ \E r \in {0, -5} : SaveFinish(r)

SpecScenario == InitScenario /\ [][NextScenario]_vars

\* the object store eventually completes every submitted operation
\* successfully: the finisher runs C_IO_SM_Save::finish with r = 0
SpecScenarioFair == SpecScenario /\ WF_vars(SaveFinish(0))

\* ---------------------------------------------------------------------------
\* Claims about save, the counters and the commit waiters
\* ---------------------------------------------------------------------------

\* the mark_dirty calls that no completed store operation includes: those no
\* operation carries yet, and those of the operations still outstanding
NotDurable == unsaved \cup UNION {inflight[i].marks : i \in 1..Len(inflight)}

\* every mark_dirty performed at a version <= needv is in a completed operation
DurableUpTo(needv) == \A x \in NotDurable : x.v > needv

FiredCompletions == {fired.cs[i] : i \in 1..Len(fired.cs)}

\* C1 as stated: whenever a completion passed to save(completion, needv) with
\* needv > 0 is fired, committed >= needv and every mark_dirty performed at a
\* version <= needv is in a store operation that has completed, whatever needv
\* the caller passed.
C1_Original ==
  \A c \in FiredCompletions :
    c.needv > 0 => committed >= c.needv /\ DurableUpTo(c.needv)

\* C2 as stated: after every operation of the loaded map
\* committed <= committing <= version <= projected.
C2_Original ==
  pc = "loaded" =>
    committed <= committing /\ committing <= version /\ version <= projected

\* C3 as stated: after a completed load none of committed, committing, version
\* and projected ever decreases.
C3_Original ==
  [][pc = "loaded" =>
       /\ committed' >= committed
       /\ committing' >= committing
       /\ version' >= version
       /\ projected' >= projected]_vars

\* C8 as stated: when the completion of a save submitted at version v runs,
\* committed >= v and dirty_sessions and null_sessions are empty.
C8_Original ==
  fired # NoFire =>
    committed >= fired.v /\ dirty_sessions = {} /\ null_sessions = {}

\* the names the step marks dirty
MarkedByStep == {x.name : x \in unsaved' \ unsaved}

\* C8 amended: when the completion of a save submitted at version v runs,
\* committed >= v; dirty_sessions and null_sessions are empty when save returns
\* from composing the operation (a name is in dirty_sessions after the call only
\* if the caller was _mark_dirty, which inserts it after the save), and hold at
\* the completion what the calls since have put there.
C8_Theorem ==
  [][/\ (pc = "loaded" /\ Len(inflight) > 0 /\ inflight' = Tail(inflight))
          => (fired' # NoFire /\ committed' >= decode_header(Head(inflight).header))
     /\ (pc = "loaded" /\ Len(inflight') > Len(inflight))
          => (null_sessions' = {} /\ dirty_sessions' \subseteq MarkedByStep)]_vars

\* C8 witness: a save completion runs while names marked dirty and names
\* removed since the submission are waiting for the next save
C8_Witness ==
  /\ fired # NoFire
  /\ committed >= fired.v
  /\ dirty_sessions # {}
  /\ null_sessions # {}

\* ---------------------------------------------------------------------------
\* Claims about dirty_sessions and null_sessions
\* ---------------------------------------------------------------------------

\* C4 as stated: in every reachable state no name is in both dirty_sessions
\* and null_sessions.
C4_Original == dirty_sessions \cap null_sessions = {}

\* C5 as stated: in every reachable state no name in null_sessions is a key of
\* sessions.
C5_Original == null_sessions \cap DOMAIN session_map = {}

\* C6 as stated: in every reachable state every name in dirty_sessions is a
\* key of sessions, so save never looks up a dirty name that has no session.
C6_Original == dirty_sessions \subseteq DOMAIN session_map

\* the name was marked dirty, removed and added again, and no save has been
\* composed since the mark
Recreated(n) ==
  /\ n \in DOMAIN session_map
  /\ n \in null_sessions
  /\ n \notin dirty_sessions
  /\ \E x \in unsaved : x.name = n

\* the step composes an operation and hands it to the store
Submits == Len(inflight') = Len(inflight) + 1

Submitted == inflight'[Len(inflight')]

\* C10 as stated: after add_session(s1), mark_dirty(s1), remove_session(s1),
\* add_session(s1') with the same name and no save in between, the next save's
\* operation has an omap_set entry for the name and no omap_rm_keys entry.
C10_Original ==
  [][\A n \in Names :
       (pc = "loaded" /\ Recreated(n) /\ Submits) =>
         /\ KeyOf(n) \in DOMAIN Submitted.to_set
         /\ KeyOf(n) \notin Submitted.to_remove]_vars

\* ---------------------------------------------------------------------------
\* Claims about by_state
\* ---------------------------------------------------------------------------

\* number of times a name is linked on the lists of by_state
RECURSIVE LinksIn(_, _)
LinksIn(n, sts) ==
  IF sts = {} THEN 0
  ELSE LET st == CHOOSE x \in sts : TRUE
       IN Len(SelectSeq(by_state[st], LAMBDA x : x = n)) + LinksIn(n, sts \ {st})

RECURSIVE TotalLength(_)
TotalLength(sts) ==
  IF sts = {} THEN 0
  ELSE LET st == CHOOSE x \in sts : TRUE
       IN Len(by_state[st]) + TotalLength(sts \ {st})

\* every session is linked on exactly one list, the list of its state, and the
\* lists hold as many entries as there are sessions
IndexConsistent ==
  /\ \A n \in DOMAIN session_map :
       /\ LinksIn(n, States) = 1
       /\ InSeq(by_state[session_map[n].state], n)
  /\ Cardinality(DOMAIN session_map) = TotalLength(States)

\* C7 as stated: in every reachable state, the states between two batches of
\* a paged load included, every session is linked on exactly one by_state list,
\* the list of its state, and |sessions| is the sum of the lengths of the lists.
C7_Original == IndexConsistent

\* C7 amended: the same in every state in which no load is in progress (before
\* load and once the load has completed); the sessions decoded from the batches
\* of a load are linked only when its last batch has been decoded.
C7_Theorem == pc \in {"init", "loaded"} => IndexConsistent

\* C7 witness: after a load, set_state has moved a session to the stale list
\* while another session is on another list
C7_Witness ==
  /\ pc = "loaded"
  /\ Len(by_state[STATE_STALE]) = 1
  /\ \E st \in States \ {STATE_STALE} : Len(by_state[st]) = 1
  /\ IndexConsistent

\* ---------------------------------------------------------------------------
\* Claims about the stored OMAP
\* ---------------------------------------------------------------------------

\* the step is the commit of the oldest outstanding operation
Commits == Len(inflight) > 0 /\ inflight' = Tail(inflight) /\ fired' # NoFire

\* the keys of the sessions of the map in one of the four persisted states
LiveKeys == {KeyOf(n) : n \in {x \in DOMAIN session_map : Persisted(session_map[x].state)}}

\* C9 as stated: after a save commits, the OMAP maps exactly the names in
\* (sessions of the map at submit in state open, closing, stale or killing)
\* union (keys persisted before) minus (null_sessions at submit), each session
\* name to that session's info. Both ways of reading "union ... minus" are
\* accepted. Under SpecStore the map at the commit is the map at the submit.
C9_Original ==
  [][Commits =>
       LET op == Head(inflight)
       IN /\ \/ DOMAIN obj_omap' = (LiveKeys \cup DOMAIN obj_omap) \ op.to_remove
             \/ DOMAIN obj_omap' = LiveKeys \cup (DOMAIN obj_omap \ op.to_remove)
          /\ \A k \in LiveKeys \cap DOMAIN obj_omap' :
               obj_omap'[k] = EncodeInfo(session_map[ParseKey(k)].info)]_vars

\* the keys of the dirty names whose session is in one of the four states
DirtyLiveKeys ==
  {KeyOf(n) : n \in {x \in dirty_sessions \cap DOMAIN session_map :
                       Persisted(session_map[x].state)}}

\* C9 amended: a save writes the dirty sessions only. The operation it composes
\* sets exactly the keys of the dirty names whose session is open, closing,
\* stale or killing, each to that session's info at the submit, and removes
\* exactly the keys of null_sessions; when it commits, the OMAP maps exactly
\* (keys persisted before union keys set) minus (keys removed), the keys set to
\* the values of the operation and the others to the values they had.
C9_Theorem ==
  [][/\ (pc = "loaded" /\ Submits) =>
          /\ DOMAIN Submitted.to_set = DirtyLiveKeys
          /\ \A k \in DirtyLiveKeys :
               Submitted.to_set[k] = EncodeInfo(session_map[ParseKey(k)].info)
          /\ Submitted.to_remove = {KeyOf(n) : n \in null_sessions}
     /\ Commits =>
          LET op == Head(inflight)
          IN /\ DOMAIN obj_omap' = (DOMAIN obj_omap \cup DOMAIN op.to_set) \ op.to_remove
             /\ \A k \in DOMAIN obj_omap' :
                  obj_omap'[k] = IF k \in DOMAIN op.to_set THEN op.to_set[k]
                                 ELSE obj_omap[k]]_vars

\* C9 witness: a committed save has set one key and removed another, while a
\* session in a persisted state that was not dirty has no key
C9_Witness ==
  /\ fired # NoFire
  /\ KeyOf(1) \in DOMAIN obj_omap
  /\ KeyOf(2) \notin DOMAIN obj_omap
  /\ obj_omap[KeyOf(1)] = EncodeInfo(Info(1, FALSE))
  /\ 2 \in DOMAIN session_map
  /\ Persisted(session_map[2].state)

\* ---------------------------------------------------------------------------
\* Claims about collapsing saves
\* ---------------------------------------------------------------------------

\* the completion a caller hands to save(c, needv) in the current state
Handed(needv) == Completion(needv, FALSE, version)

\* save(c, needv) called now submits no operation and queues c under the
\* version of the commit in flight
QueuesOnCommitting(needv) ==
  LET m == save(Cur, Handed(needv), needv)
  IN /\ ~m.failed
     /\ m.inflight = inflight
     /\ m.commit_waiters = PushWaiter(commit_waiters, committing, Handed(needv))

\* the step is the completion of the oldest outstanding operation, and it fires
\* exactly the completions queued under the version recorded in the operation
FiresItsWaiters ==
  LET v == decode_header(Head(inflight).header)
  IN /\ fired'.v = v
     /\ fired'.cs = (IF v \in DOMAIN commit_waiters THEN commit_waiters[v] ELSE <<>>)
     /\ v \notin DOMAIN commit_waiters'

\* C11 as stated: while a save is in flight, save(c2, v') with v' <= committing,
\* v' = 0 included, submits no operation and queues c2 with the completion of
\* the save in flight, whose commit fires both.
C11_Original ==
  (pc = "loaded" /\ Len(inflight) > 0) =>
    \A needv \in 0..committing : QueuesOnCommitting(needv)

\* save(c1, 5) is in flight at version 5 and a mutation has raised version to 6
SaveAt5InFlight ==
  /\ pc = "loaded"
  /\ version = 6
  /\ committing = 5
  /\ committed < 5
  /\ Len(inflight) = 1
  /\ decode_header(inflight[1].header) = 5

\* C12 as stated: with save(c1, 5) in flight (committing = 5) and version
\* raised to 6, save(c2, 6) enqueues c2 on commit_waiters[5] and submits no new
\* operation, so that a later save is needed to persist version 6.
C12_Original ==
  SaveAt5InFlight =>
    LET m == save(Cur, Handed(6), 6)
    IN /\ m.inflight = inflight
       /\ m.commit_waiters = PushWaiter(commit_waiters, 5, Handed(6))

\* C12 amended: with save(c1, 5) in flight (committing = 5) and version raised
\* to 6, save(c2, 6) does not collapse, since committing < 6: it enqueues c2 on
\* commit_waiters[6], sets committing = 6 and submits a second operation that
\* records version 6. The completion of the first operation sets committed = 5
\* and fires what is queued under 5, the completion of the second sets
\* committed = 6 and fires c2; no later save is needed.
C12_Theorem ==
  [][/\ SaveAt5InFlight =>
          LET m == save(Cur, Handed(6), 6)
          IN /\ ~m.failed
             /\ Len(m.inflight) = 2
             /\ decode_header(m.inflight[2].header) = 6
             /\ m.committing = 6
             /\ m.commit_waiters = PushWaiter(commit_waiters, 6, Handed(6))
     /\ (pc = "loaded" /\ Commits) =>
          /\ FiresItsWaiters
          /\ committed' = decode_header(Head(inflight).header)
          /\ decode_header(obj_header') = committed']_vars

\* C12 witness: the completion of the second operation has set committed = 6
\* and fired the c2 of save(c2, 6), and the store holds version 6
C12_Witness ==
  /\ fired.v = 6
  /\ committed = 6
  /\ decode_header(obj_header) = 6
  /\ \E c \in FiredCompletions : ~c.noop /\ c.needv = 6 /\ c.callv = 6

\* ---------------------------------------------------------------------------
\* Claims about the completions
\* ---------------------------------------------------------------------------

\* save(c, needv) called now returns with c queued in commit_waiters
SaveAccepted(needv) ==
  LET m == save(Cur, Handed(needv), needv)
  IN /\ ~m.failed
     /\ \E k \in DOMAIN m.commit_waiters : InSeq(m.commit_waiters[k], Handed(needv))

\* C13 as stated: every completion handed to save is queued and, the store
\* completing every operation, fired eventually; it is fired exactly once, by
\* the completion of an operation whose recorded version is the key it was
\* queued under, and after a completion commit_waiters holds no entry for a
\* version <= committed.
C13_Original ==
  /\ [][pc = "loaded" =>
          /\ \A needv \in 0..(version + 1) : SaveAccepted(needv)
          /\ Commits =>
               /\ FiresItsWaiters
               /\ \A k \in DOMAIN commit_waiters' : k > committed']_vars
  /\ \A k \in 0..MaxScenarioVersion :
       (k \in DOMAIN commit_waiters) ~> (fired.v = k)

\* ---------------------------------------------------------------------------
\* Claims about the size of dirty_sessions
\* ---------------------------------------------------------------------------

\* _mark_dirty(n) entered now submits an operation composed from the names that
\* are dirty, and leaves n alone in dirty_sessions
PreemptsBeforeInsert(n) ==
  LET m == mark_dirty_inner(Cur, n, keys_per_op)
  IN /\ ~m.failed
     /\ Len(m.inflight) = Len(inflight) + 1
     /\ m.dirty_sessions = {n}

\* C14 as stated: whenever _mark_dirty is entered with |dirty_sessions| >= K a
\* save operation is submitted and dirty_sessions is emptied before the name is
\* inserted; |dirty_sessions| <= K in every reachable state, and every
\* operation but the upgrade save after a legacy load is composed from at most
\* K dirty names (the states and the save that follow a legacy load are left
\* out of the last two).
C14_Original ==
  [][pc = "loaded" =>
       /\ \A n \in DOMAIN session_map :
            Cardinality(dirty_sessions) >= keys_per_op => PreemptsBeforeInsert(n)
       /\ ~loaded_legacy => Cardinality(dirty_sessions) <= keys_per_op
       /\ (Submits /\ ~loaded_legacy) =>
            Cardinality(DOMAIN Submitted.to_set) <= keys_per_op]_vars

\* ---------------------------------------------------------------------------
\* Claims about the upgrade of a legacy object
\* ---------------------------------------------------------------------------

\* the sessions a modern load decodes from an OMAP
Reloaded(omap) == DecodeValuesFrom(EmptyMap, omap, SortedKeys(DOMAIN omap))

\* the step completes a load
CompletesLoad == pc \in {"loading", "loading_legacy"} /\ pc' = "loaded"

\* C15 as stated: the first operation submitted after a legacy load holds
\* truncate, the header and an omap_set entry for every loaded session still in
\* the map; no later operation holds truncate; once it has committed the bytes
\* are empty, and a reload takes the modern path and yields the same sessions.
\* Under SpecUpgrade no session is added, and the map at the commit is the map
\* at the submit.
C15_Original ==
  [][/\ (pc = "loaded" /\ Submits) =>
          /\ Submitted.truncate = loaded_legacy
          /\ loaded_legacy =>
               /\ decode_header(Submitted.header) = version
               /\ \A n \in DOMAIN session_map : KeyOf(n) \in DOMAIN Submitted.to_set
     /\ (pc = "loaded" /\ Commits /\ Head(inflight).truncate) =>
          /\ obj_data' = EmptyBl
          /\ obj_header' # EmptyBl
          /\ DOMAIN Reloaded(obj_omap') = DOMAIN session_map]_vars

\* C15 amended: the first operation submitted after a legacy load holds
\* truncate, the header and an omap_set entry for every loaded session still in
\* the map whose state is open, closing, stale or killing; no later operation
\* holds truncate. Once it has committed the bytes are empty and the header is
\* not, so a reload takes the modern path; the reload yields exactly those
\* sessions, open and with the info they had at the submit.
C15_Theorem ==
  [][/\ (pc = "loaded" /\ Submits) =>
          /\ Submitted.truncate = loaded_legacy
          /\ loaded_legacy =>
               /\ decode_header(Submitted.header) = version
               /\ \A n \in DOMAIN session_map :
                    Persisted(session_map[n].state) <=> KeyOf(n) \in DOMAIN Submitted.to_set
     /\ (pc = "loaded" /\ Commits /\ Head(inflight).truncate) =>
          /\ obj_data' = EmptyBl
          /\ obj_header' # EmptyBl
          /\ DOMAIN Reloaded(obj_omap') =
               {n \in DOMAIN session_map : Persisted(session_map[n].state)}
          /\ \A n \in DOMAIN Reloaded(obj_omap') :
               Reloaded(obj_omap')[n].info = session_map[n].info
     /\ (CompletesLoad /\ obj_header # EmptyBl) =>
          /\ pc = "loading"
          /\ obj_data = EmptyBl
          /\ session_map' = Reloaded(obj_omap)
          /\ ~loaded_legacy'
          /\ dirty_sessions' = {}]_vars

\* C15 witness: after the upgrade save of a legacy object has committed, the
\* rank has restarted and is loading the object again on the modern path, the
\* second batch outstanding
C15_Witness ==
  /\ pc = "loading"
  /\ ~load_op.first
  /\ obj_data = EmptyBl
  /\ obj_header # EmptyBl
  /\ Cardinality(DOMAIN obj_omap) = 2

\* ---------------------------------------------------------------------------
\* Claims about the assertion of the collapsing branch
\* ---------------------------------------------------------------------------

\* C16 as stated: in every reachable state of a loaded map, whatever needv a
\* caller passes, a save that takes the collapsing branch finds
\* committing > committed, and so does the save that _mark_dirty calls.
C16_Original ==
  pc = "loaded" =>
    /\ \A needv \in 0..MaxScenarioVersion :
         Collapses(Cur, needv) => ~save(Cur, Handed(needv), needv).failed
    /\ \A n \in DOMAIN session_map : ~mark_dirty_inner(Cur, n, keys_per_op).failed

\* ---------------------------------------------------------------------------
\* Claims about the operation of a full write
\* ---------------------------------------------------------------------------

\* the last operation handed to the store in the map state m
LastOp(m) == m.inflight[Len(m.inflight)]

\* C17 as stated: in every reachable state of a loaded map, a save that does
\* not collapse submits exactly one operation: the header with the current version, an
\* omap_set of exactly the dirty names whose session is open, closing, stale or
\* killing, each with that session's encoded info (empty when there is none),
\* and an omap_rm_keys of exactly null_sessions (empty when there is none); it
\* leaves dirty_sessions and null_sessions empty and committing = version.
C17_Original ==
  pc = "loaded" =>
    \A needv \in 0..(MaxLowVersion + 1) :
      ~Collapses(Cur, needv) =>
        LET m == save(Cur, Handed(needv), needv)
            live == {n \in dirty_sessions : Persisted(session_map[n].state)}
        IN /\ ~m.failed
           /\ Len(m.inflight) = Len(inflight) + 1
           /\ SubSeq(m.inflight, 1, Len(inflight)) = inflight
           /\ decode_header(LastOp(m).header) = version
           /\ DOMAIN LastOp(m).to_set = {KeyOf(n) : n \in live}
           /\ \A n \in live : LastOp(m).to_set[KeyOf(n)] = EncodeInfo(session_map[n].info)
           /\ LastOp(m).to_remove = {KeyOf(n) : n \in null_sessions}
           /\ m.dirty_sessions = {}
           /\ m.null_sessions = {}
           /\ m.committing = version
           /\ m.version = version
           /\ m.session_map = session_map

\* ---------------------------------------------------------------------------
\* Claims about the load
\* ---------------------------------------------------------------------------

\* the object holds header {version: 7} and the keys client.1 .. client.4, and
\* the batch size is 2
FourKeysByTwo ==
  /\ keys_per_op = 2
  /\ obj_header = encode_header(7)
  /\ DOMAIN obj_omap = {KeyOf(n) : n \in 1..4}

\* what the load of that object completes with: version 7, four open sessions,
\* by_state[open] of length 4
FourOpenSessions ==
  /\ version = 7
  /\ DOMAIN session_map = 1..4
  /\ \A n \in 1..4 : session_map[n].state = STATE_OPEN
  /\ Len(by_state[STATE_OPEN]) = 4
  /\ waiting_for_load = 0

\* C18 as stated: the load of that object issues exactly two reads, the second
\* with start client.2, and then completes with version 7, four open sessions,
\* by_state[open] of length 4 and the waiters released.
C18_Original ==
  FourKeysByTwo =>
    /\ reads_issued <= 2
    /\ (pc = "loading" /\ reads_issued = 2) => load_op.start = KeyOf(2)
    /\ pc = "loaded" => FourOpenSessions

\* C18 amended: the load of that object issues exactly three reads, the second
\* with start client.2 and the third, which finds no key, with start client.4;
\* it then completes with version 7, four open sessions, by_state[open] of
\* length 4, and the waiters released, not before the third read is answered.
C18_Theorem ==
  FourKeysByTwo =>
    /\ reads_issued <= 3
    /\ (pc = "loading" /\ reads_issued = 1) => load_op.first
    /\ (pc = "loading" /\ reads_issued = 2) => load_op.start = KeyOf(2)
    /\ (pc = "loading" /\ reads_issued = 3) =>
         /\ load_op.start = KeyOf(4)
         /\ OmapGetVals(obj_omap, load_op.start, keys_per_op) = EmptyMap
    /\ pc = "loading" => load_released = 0
    /\ pc = "loaded" => (reads_issued = 3 /\ FourOpenSessions)
    /\ pc # "failed"

\* C18 witness: the load of that object has completed with a waiter released
C18_Witness ==
  /\ FourKeysByTwo
  /\ pc = "loaded"
  /\ reads_issued = 3
  /\ load_released = 1
  /\ Len(by_state[STATE_OPEN]) = 4

\* the object has neither header, keys nor bytes
Absent == obj_header = EmptyBl /\ obj_omap = EmptyMap /\ obj_data = EmptyBl

\* C19 as stated: the load of an object whose header and values are both empty
\* issues no read after the first and completes with version 0 and no sessions.
C19_Original ==
  Absent =>
    /\ reads_issued <= 1
    /\ pc # "failed"
    /\ pc = "loaded" => (version = 0 /\ session_map = EmptyMap /\ waiting_for_load = 0)

\* the object is in the modern format
HasHeader == obj_header # EmptyBl

\* the sessions are those of the stored keys, one each, each on one list
OneSessionPerKey ==
  /\ DOMAIN session_map = {ParseKey(k) : k \in DOMAIN obj_omap}
  /\ Cardinality(DOMAIN session_map) = Cardinality(DOMAIN obj_omap)
  /\ IndexConsistent

\* C20: the load of an object in the modern format, its reads answered without
\* error, completes for every key count and batch size; at completion every
\* stored key has exactly one session, projected = committing = committed =
\* version = the header's version, and the handles in waiting_for_load are
\* released once, by the step that decodes the last batch.
C20_Theorem ==
  /\ (pc = "loading" /\ HasHeader) ~> (pc = "loaded")
  /\ [](HasHeader /\ pc = "loaded" =>
          /\ OneSessionPerKey
          /\ version = decode_header(obj_header)
          /\ projected = version
          /\ committing = version
          /\ committed = version
          /\ waiting_for_load = 0)
  /\ [][HasHeader =>
          /\ (pc = "loading" /\ pc' = "loaded") =>
               /\ load_released = 0
               /\ load_released' = waiting_for_load
               /\ OmapGetVals(obj_omap, load_op.start, keys_per_op)
                    = OmapGetVals(obj_omap, load_op.start, keys_per_op + 1)
          /\ load_released' # load_released => (pc = "loading" /\ pc' = "loaded")]_vars

\* C20 witness: an object with as many keys as two full batches has been loaded
\* after a third read, and the waiter released
C20_Witness ==
  /\ pc = "loaded"
  /\ HasHeader
  /\ keys_per_op = 2
  /\ Cardinality(DOMAIN obj_omap) = 4
  /\ Cardinality(DOMAIN session_map) = 4
  /\ load_released = 1
  /\ committed = 7

\* ---------------------------------------------------------------------------
\* Claims about the preemptive save of _mark_dirty
\* ---------------------------------------------------------------------------

\* _mark_dirty of any name would call save(noop, version)
Preempts == Cardinality(dirty_sessions) >= keys_per_op

\* C21 as stated: in every reachable state of a loaded map in which _mark_dirty
\* would save preemptively, save(noop, version) takes the full-write branch, so
\* the operation it submits carries the names that were dirty and
\* dirty_sessions is empty before the new name is inserted.
C21_Original ==
  (pc = "loaded" /\ Preempts) =>
    /\ ~Collapses(Cur, version)
    /\ LET m == save(Cur, Completion(version, TRUE, version), version)
       IN /\ ~m.failed
          /\ m.dirty_sessions = {}
          /\ m.committing = version

\* ---------------------------------------------------------------------------
\* Claims about the projected versions
\* ---------------------------------------------------------------------------

\* C22 as stated: in every reachable state, for every session with a projected
\* version queued, the version mark_dirty pops from the front of the queue
\* equals the map's version after the increment, whatever the order in which
\* the sessions were projected.
C22_Original ==
  pc = "loaded" =>
    \A n \in DOMAIN session_map :
      Len(session_map[n].pv) > 0 => Head(session_map[n].pv) = version + 1

====
